---- MODULE Spec2Model ----
(***************************************************************************)
(* A model of tab_bar.py, the kitty tab bar of cliuj/config-kitty.          *)
(*                                                                         *)
(* Strings are TLA+ strings: Len, \o and SubSeq act on them as len, + and   *)
(* slicing do in Python.  A provider result is a record: hidden = TRUE is   *)
(* Python's None, otherwise text holds the string ("" is icon-only).        *)
(***************************************************************************)
EXTENDS Integers, Sequences, FiniteSets, TLC

VARIABLES
    center,        \* module global `center`: the cells accumulated this frame
    active_index,  \* module global `active_index`
    timer_id,      \* module global `timer_id`: <<>> is None, <<id>> a handle
    timers,        \* host: how many times add_timer has been called
    dirty,         \* host: the tab bar is marked dirty
    screen,        \* host: the drawing surface handed to draw_tab
    phase,         \* host: "idle", "drawing" a frame, or the frame is "drawn"
    n_tabs,        \* host: the number of tabs of the frame being drawn
    active_pos,    \* host: the 1-based position of the frame's active tab
    tabs,          \* host: the tabs handed to draw_tab so far in this frame
    called,        \* history: draw_tab has been called at least once
    ret,           \* the value the last draw_tab call returned
    last,          \* history: the locals of the last flush (is_last call)
    probe          \* history: the last direct Cell.draw application

vars == <<center, active_index, timer_id, timers, dirty, screen, phase, n_tabs,
          active_pos, tabs, called, ret, last, probe>>

(***************************************************************************)
(* Bounds of the model.                                                    *)
(***************************************************************************)
MaxTabs == 2
MaxColumns == 56
MaxBudget == 20
MaxStart == 2

(***************************************************************************)
(* Program constants.                                                      *)
(***************************************************************************)
BG == 19
FG == 7
COLOR_1 == 3
COLOR_2 == 5
COLOR_3 == 4
COLOR_4 == 4
TRANSPARENT == 0
MAX_LENGTH_PATH == 3

\* Each Nerd Font glyph of the source is one character; a letter stands for it.
folder_icon == "F "
time_icon == "T "
session_icon == "S "

\* Cell.__init__'s defaults for separator and border, one glyph each
default_separator == ">"
default_border == <<"(", ")">>

None == [hidden |-> TRUE, text |-> ""]
Some(s) == [hidden |-> FALSE, text |-> s]

(***************************************************************************)
(* Host data: the environment's HOME, the wall clock, the tabs.            *)
(***************************************************************************)
Home == <<"h", "u">>
Clock == {[hour |-> 9, minute |-> 5], [hour |-> 23, minute |-> 59]}
NoTab == [tab_id |-> 0, title |-> "", active_exe |-> "", session_name |-> "",
          active_wd |-> <<>>, is_active |-> FALSE]

\* active_wd is the absolute path as its segments below the root.
TabMenu == {
    [tab_id |-> 1, title |-> "#alpha", active_exe |-> "zsh",
     session_name |-> "development", active_wd |-> <<"h", "u", "p", "q", "r">>],
    [tab_id |-> 2, title |-> "bash", active_exe |-> "bash",
     session_name |-> "", active_wd |-> <<"h", "u">>],
    [tab_id |-> 12, title |-> "#", active_exe |-> "vi",
     session_name |-> "ab", active_wd |-> <<>>],
    [tab_id |-> 3, title |-> "#gamma", active_exe |-> "x",
     session_name |-> "dev", active_wd |-> <<"etc", "a">>],
    [tab_id |-> 7, title |-> "vim", active_exe |-> "nvim",
     session_name |-> "work", active_wd |-> <<"v", "w", "xx", "y", "zzz">>] }

WithActive(t, a) ==
    [tab_id |-> t.tab_id, title |-> t.title, active_exe |-> t.active_exe,
     session_name |-> t.session_name, active_wd |-> t.active_wd, is_active |-> a]

(***************************************************************************)
(* Python built-ins used by the code.                                      *)
(***************************************************************************)
Digit(d) == SubSeq("0123456789", d + 1, d + 1)

RECURSIVE str(_)
str(n) == IF n < 10 THEN Digit(n) ELSE str(n \div 10) \o Digit(n % 10)

\* "%H:%M"
strftime(now) ==
    Digit(now.hour \div 10) \o Digit(now.hour % 10) \o ":" \o
    Digit(now.minute \div 10) \o Digit(now.minute % 10)

\* "/".join(parts)
RECURSIVE join(_)
join(parts) ==
    IF Len(parts) = 0 THEN ""
    ELSE IF Len(parts) = 1 THEN parts[1]
    ELSE parts[1] \o "/" \o join(Tail(parts))

\* " " * n (the empty string when n <= 0)
RECURSIVE spaces(_)
spaces(n) == IF n <= 0 THEN "" ELSE " " \o spaces(n - 1)

\* parts[lo:] of a Python list (0-based lo)
slice_from(parts, lo) == SubSeq(parts, lo + 1, Len(parts))

(***************************************************************************)
(* The screen: a cursor and a log of what was drawn where.                 *)
(***************************************************************************)
BlankScreen(columns, x) ==
    [columns |-> columns, x |-> x, dim |-> FALSE, bold |-> FALSE,
     italic |-> FALSE, fg |-> TRANSPARENT, bg |-> TRANSPARENT, out |-> <<>>]

screen_draw(s, text) ==
    IF text = "" THEN s
    ELSE [s EXCEPT !.x = @ + Len(text),
                   !.out = Append(@, [x |-> s.x, text |-> text, fg |-> s.fg,
                                      bg |-> s.bg, bold |-> s.bold])]

(***************************************************************************)
(* Text providers.                                                         *)
(***************************************************************************)
is_relative_to(wd, home) ==
    Len(home) <= Len(wd) /\ SubSeq(wd, 1, Len(home)) = home

\* Path(...).parts after the $HOME prefix is replaced by ~ (lines 133-146).
\* relative_to(home) leaves a relative path, which never equals the absolute
\* home, so line 143 always runs; Path("~") / Path(".") is Path("~").
wd_parts(tab) ==
    LET wd == tab.active_wd
    IN IF is_relative_to(wd, Home)
       THEN <<"~">> \o slice_from(wd, Len(Home))
       ELSE <<"/">> \o wd

\* variant: one trailing segment too many is kept
compress_keep_more(parts) ==
    IF Len(parts) > MAX_LENGTH_PATH
    THEN <<parts[1], "..">> \o slice_from(parts, Len(parts) - (MAX_LENGTH_PATH + 1))
    ELSE parts

\* lines 146-150
compress(parts) ==
    IF Len(parts) > MAX_LENGTH_PATH
    THEN <<parts[1], "..">> \o slice_from(parts, Len(parts) - MAX_LENGTH_PATH)
    ELSE parts

\* variant: the final segment is returned without measuring it
last_resort_unchecked(parts, max_size) == Some(parts[Len(parts)])

\* lines 160-164
last_resort(parts, max_size) ==
    IF Len(parts[Len(parts)]) <= max_size THEN Some(parts[Len(parts)]) ELSE None

\* line 155
candidate(parts, head, parts_cnt) ==
    join(SubSeq(parts, 1, head) \o slice_from(parts, parts_cnt))

\* lines 153-164: the loop, from parts_cnt on (head is 1 + compressed)
RECURSIVE drop_leading(_, _, _, _)
drop_leading(parts, head, parts_cnt, max_size) ==
    IF parts_cnt # Len(parts)
    THEN IF Len(candidate(parts, head, parts_cnt)) <= max_size
         THEN Some(candidate(parts, head, parts_cnt))
         ELSE drop_leading(parts, head, parts_cnt + 1, max_size)
    ELSE last_resort(parts, max_size)

\* lines 146-164, on the parts of the home-abbreviated path
shorten(parts0, max_size) ==
    IF Len(parts0) > MAX_LENGTH_PATH
    THEN drop_leading(compress(parts0), 2, 2, max_size)
    ELSE drop_leading(compress(parts0), 1, 1, max_size)

get_wd(max_size, tab) == shorten(wd_parts(tab), max_size)

get_time(max_size, now) ==
    IF max_size < 5 THEN None ELSE Some(strftime(now))

tab_text(tab) ==
    IF SubSeq(tab.title, 1, 1) = "#"
    THEN SubSeq(tab.title, 2, Len(tab.title))
    ELSE tab.active_exe

get_tab(max_size, tab) ==
    IF max_size <= Len(tab_text(tab)) THEN Some("") ELSE Some(tab_text(tab))

session_text(tab) == IF tab.session_name = "" THEN "none" ELSE tab.session_name

get_session(max_size, tab) ==
    IF Len(session_text(tab)) <= max_size THEN Some(session_text(tab))
    ELSE IF max_size >= 3 THEN Some(SubSeq(session_text(tab), 1, 3))
    ELSE None

(***************************************************************************)
(* Cell.                                                                   *)
(***************************************************************************)
Cell(icon, text_fn, tab, color, separator, border) ==
    [icon |-> icon, text_fn |-> text_fn, tab |-> tab, bg |-> BG, fg |-> FG,
     color |-> color, separator |-> separator, border |-> border]

text_length_overhead(cell) ==
    Len(cell.border[1] \o cell.border[2] \o cell.separator \o cell.icon) + 1

\* self.text_fn(max_size, self.tab)
text_fn(cell, max_size, now) ==
    CASE cell.text_fn = "get_wd" -> get_wd(max_size, cell.tab)
      [] cell.text_fn = "get_time" -> get_time(max_size, now)
      [] cell.text_fn = "get_tab" -> get_tab(max_size, cell.tab)
      [] cell.text_fn = "get_session" -> get_session(max_size, cell.tab)

draw_icon_only(cell, s) ==
    screen_draw([s EXCEPT !.bg = TRANSPARENT, !.fg = cell.color], cell.border[2])

\* variant: the space before the label is left out
draw_labeled_no_space(cell, s, text) ==
    screen_draw(
        [screen_draw(
            [screen_draw([s EXCEPT !.bg = cell.bg, !.fg = cell.color],
                         cell.separator)
             EXCEPT !.fg = cell.fg],
            text)
         EXCEPT !.fg = cell.bg, !.bg = TRANSPARENT],
        cell.border[2])

\* lines 99-111
draw_labeled(cell, s, text) ==
    screen_draw(
        [screen_draw(
            [screen_draw([s EXCEPT !.bg = cell.bg, !.fg = cell.color],
                         cell.separator)
             EXCEPT !.fg = cell.fg],
            " " \o text)
         EXCEPT !.fg = cell.bg, !.bg = TRANSPARENT],
        cell.border[2])

\* lines 77-91: the left border and the icon
draw_icon(cell, s) ==
    [screen_draw(
        [screen_draw([s EXCEPT !.dim = FALSE, !.bold = FALSE, !.italic = FALSE,
                               !.bg = TRANSPARENT, !.fg = cell.color],
                     cell.border[1])
         EXCEPT !.bg = cell.color, !.fg = cell.bg, !.bold = TRUE],
        cell.icon)
     EXCEPT !.bold = FALSE]

\* lines 74-111, on the provider's result
draw_text(cell, s, text) ==
    IF text.hidden THEN s
    ELSE IF text.text = "" THEN draw_icon_only(cell, draw_icon(cell, s))
    ELSE draw_labeled(cell, draw_icon(cell, s), text.text)

Cell_draw(cell, s, max_size, now) ==
    draw_text(cell, s, text_fn(cell, max_size - text_length_overhead(cell), now))

\* lines 117-122, on the provider's result
length_of(cell, text) ==
    IF text.hidden THEN 0
    ELSE IF text.text = ""
         THEN Len(cell.icon \o cell.border[1] \o cell.border[2])
         ELSE Len(text.text) + text_length_overhead(cell)

Cell_length(cell, max_size, now) ==
    length_of(cell, text_fn(cell, max_size - text_length_overhead(cell), now))

get_tab_cell(tab) ==
    Cell(str(tab.tab_id), "get_tab", tab,
         IF tab.is_active THEN COLOR_2 ELSE COLOR_1,
         default_separator, default_border)

(***************************************************************************)
(* The timer callback and the center layout.                               *)
(***************************************************************************)
\* lines 210-212: tm is the host's active tab manager, or absent
redraw_tab_bar(d, tm_present) == IF tm_present THEN TRUE ELSE d

RECURSIVE sum(_)
sum(xs) == IF Len(xs) = 0 THEN 0 ELSE Head(xs) + sum(Tail(xs))

\* variant: a length equal to columns is taken to fit
fits_or_equal(length, columns) == length <= columns

\* the fit test of lines 237, 247, 252 and 257
fits(length, columns) == length < columns

\* lines 236, 244-246, 251, 256, 261: the budget a strategy measures the
\* cell at 0-based position idx with
length_budget(strategy, idx, ai, columns) ==
    CASE strategy = "EXPAND_ALL" -> columns
      [] strategy = "EXPAND_ACTIVE" -> IF idx = ai THEN columns ELSE 0
      [] strategy = "NO_EXPAND" -> 0
      [] strategy = "SHOW_ACTIVE" -> columns
      [] strategy = "SHOW_ACTIVE_NO_EXPAND" -> 0

\* lines 236, 241-246, 251, 256, 261: the length a strategy comes to
strategy_length(strategy, c, ai, columns, now) ==
    IF strategy \in {"EXPAND_ALL", "EXPAND_ACTIVE", "NO_EXPAND"}
    THEN Len(c) - 1
         + sum([i \in 1..Len(c) |->
                  Cell_length(c[i], length_budget(strategy, i - 1, ai, columns), now)])
    ELSE Cell_length(c[ai + 1], length_budget(strategy, ai, ai, columns), now)

\* lines 237-261, on the five lengths
first_fit(columns, all, act, none, one, icon) ==
    IF fits(all, columns) THEN [strategy |-> "EXPAND_ALL", length |-> all]
    ELSE IF fits(act, columns) THEN [strategy |-> "EXPAND_ACTIVE", length |-> act]
    ELSE IF fits(none, columns) THEN [strategy |-> "NO_EXPAND", length |-> none]
    ELSE IF fits(one, columns) THEN [strategy |-> "SHOW_ACTIVE", length |-> one]
    ELSE [strategy |-> "SHOW_ACTIVE_NO_EXPAND", length |-> icon]

\* Lengths that are never compared are never computed, as in the code.
center_strategy(c, ai, columns, now) ==
    first_fit(columns,
              strategy_length("EXPAND_ALL", c, ai, columns, now),
              strategy_length("EXPAND_ACTIVE", c, ai, columns, now),
              strategy_length("NO_EXPAND", c, ai, columns, now),
              strategy_length("SHOW_ACTIVE", c, ai, columns, now),
              strategy_length("SHOW_ACTIVE_NO_EXPAND", c, ai, columns, now))

\* variant: EXPAND_ACTIVE draws the active cell with no budget either
draw_budget_no_active(strategy, idx, ai, columns) ==
    CASE strategy = "EXPAND_ALL" -> columns
      [] strategy = "EXPAND_ACTIVE" -> 0
      [] strategy = "NO_EXPAND" -> 0
      [] strategy = "SHOW_ACTIVE" -> columns
      [] strategy = "SHOW_ACTIVE_NO_EXPAND" -> 0

\* lines 270, 276, 281, 283, 285: the budget a strategy draws the cell at
\* 0-based position idx with
draw_budget(strategy, idx, ai, columns) ==
    CASE strategy = "EXPAND_ALL" -> columns
      [] strategy = "EXPAND_ACTIVE" -> columns * (IF idx = ai THEN 1 ELSE 0)
      [] strategy = "NO_EXPAND" -> 0
      [] strategy = "SHOW_ACTIVE" -> columns
      [] strategy = "SHOW_ACTIVE_NO_EXPAND" -> 0

\* lines 268-269, 274-275, 279-280
draw_separator(s, idx) == IF idx # 0 THEN screen_draw(s, " ") ELSE s

\* the loops of lines 267-281, from the cell at 1-based position i on
RECURSIVE draw_cells(_, _, _, _, _, _)
draw_cells(s, strategy, c, ai, i, now) ==
    IF i > Len(c) THEN s
    ELSE draw_cells(
             Cell_draw(c[i], draw_separator(s, i - 1),
                       draw_budget(strategy, i - 1, ai, s.columns), now),
             strategy, c, ai, i + 1, now)

draw_center(s, strategy, c, ai, now) ==
    IF strategy \in {"EXPAND_ALL", "EXPAND_ACTIVE", "NO_EXPAND"}
    THEN draw_cells(s, strategy, c, ai, 1, now)
    ELSE Cell_draw(c[ai + 1], s, draw_budget(strategy, ai, ai, s.columns), now)

(***************************************************************************)
(* Section drawers.  draw_right and the flush are written as the steps of  *)
(* the code, each taking and returning the record of the locals so far.    *)
(***************************************************************************)
left_cell(c, ai) ==
    Cell(folder_icon, "get_wd", c[ai + 1].tab, COLOR_4,
         default_separator, default_border)

draw_left(s, max_length, c, ai, now) ==
    Cell_draw(left_cell(c, ai), s, max_length, now)

time_cell ==
    Cell(time_icon, "get_time", NoTab, COLOR_3, default_separator, default_border)

session_cell(c, ai) ==
    Cell(session_icon, "get_session", c[ai + 1].tab, COLOR_3,
         default_separator, default_border)

NoRight ==
    [max_size |-> 0, time_length |-> 0, session_length |-> 0,
     total_length |-> 0, s_begin |-> BlankScreen(0, 0),
     s_pad |-> BlankScreen(0, 0), s_session |-> BlankScreen(0, 0),
     s |-> BlankScreen(0, 0)]

\* lines 298, 303
right_time_length(s, now) ==
    [NoRight EXCEPT !.s_begin = s,
                    !.max_size = s.columns - s.x,
                    !.time_length = Cell_length(time_cell, s.columns - s.x, now)]

\* variant: the clock and the space are not taken off the budget
session_budget_full(max_size, time_length) == max_size

\* line 304: the budget the session cell is measured with
session_budget(max_size, time_length) == max_size - time_length - 1

\* line 304
right_session_length(r, c, ai, now) ==
    [r EXCEPT !.session_length =
        Cell_length(session_cell(c, ai),
                    session_budget(r.max_size, r.time_length), now)]

\* lines 303-307
right_total_length(r) ==
    [r EXCEPT !.total_length =
        IF r.session_length # 0 THEN r.time_length + 1 + r.session_length
        ELSE r.time_length]

\* lines 310-311
right_pad(r) ==
    [r EXCEPT !.s_pad = screen_draw(r.s_begin, spaces(r.max_size - r.total_length))]

\* lines 313-315
right_session(r, c, ai, now) ==
    [r EXCEPT !.s_session =
        IF r.session_length # 0
        THEN screen_draw(Cell_draw(session_cell(c, ai), r.s_pad,
                                   r.session_length, now), " ")
        ELSE r.s_pad]

\* line 317
right_time(r, now) ==
    [r EXCEPT !.s = Cell_draw(time_cell, r.s_session, r.max_size, now)]

draw_right(s, c, ai, now) ==
    right_time(
        right_session(
            right_pad(
                right_total_length(
                    right_session_length(right_time_length(s, now), c, ai, now))),
            c, ai, now),
        now)

(***************************************************************************)
(* draw_tab.                                                               *)
(***************************************************************************)
NoFlush ==
    [done |-> FALSE, st |-> [strategy |-> "", length |-> 0], start |-> 0,
     wd |-> None, center |-> <<>>, active_index |-> 0,
     s_begin |-> BlankScreen(0, 0), s_left |-> BlankScreen(0, 0),
     s_center |-> BlankScreen(0, 0), s_space |-> BlankScreen(0, 0),
     right |-> NoRight]

\* line 351
flush_strategy(f, now) ==
    [f EXCEPT !.st = center_strategy(f.center, f.active_index,
                                     f.s_begin.columns, now)]

\* line 353
center_start_position(columns, length) == (columns - length) \div 2

flush_start(f) ==
    [f EXCEPT !.start = center_start_position(f.s_begin.columns, f.st.length)]

\* line 354; wd is what get_wd returned to the left cell
flush_left(f, now) ==
    [f EXCEPT
        !.s_left = draw_left(f.s_begin, f.start - 1, f.center, f.active_index, now),
        !.wd = text_fn(left_cell(f.center, f.active_index),
                       f.start - 1
                       - text_length_overhead(left_cell(f.center, f.active_index)),
                       now)]

\* lines 356-357
flush_center(f, now) ==
    [f EXCEPT !.s_center = draw_center([f.s_left EXCEPT !.x = f.start],
                                       f.st.strategy, f.center, f.active_index, now)]

\* line 358
flush_space(f) == [f EXCEPT !.s_space = screen_draw(f.s_center, " ")]

\* line 360
flush_right(f, now) ==
    [f EXCEPT !.right = draw_right(f.s_space, f.center, f.active_index, now)]

\* lines 351-360: the locals of the flush
flush(c, ai, s, now) ==
    flush_right(
        flush_space(
            flush_center(
                flush_left(
                    flush_start(
                        flush_strategy(
                            [NoFlush EXCEPT !.done = TRUE, !.center = c,
                                            !.active_index = ai, !.s_begin = s],
                            now)),
                    now),
                now)),
        now)

\* variant: the timer is registered on every call
timer_always(tid) == TRUE

\* line 341
timer_unset(tid) == tid = <<>>

\* lines 341-342: add_timer hands out the next handle
start_timer(g) ==
    IF timer_unset(g.timer_id)
    THEN [g EXCEPT !.timer_id = <<g.timers + 1>>, !.timers = g.timers + 1]
    ELSE g

\* lines 343-344
set_active(g, tab, index) ==
    IF tab.is_active THEN [g EXCEPT !.active_index = index - 1] ELSE g

\* line 346
accumulate(c, tab) == Append(c, get_tab_cell(tab))

append_cell(g, tab) == [g EXCEPT !.center = accumulate(g.center, tab)]

\* variant: every call flushes
flush_always(is_last) == TRUE

\* line 350
flushes(is_last) == is_last

\* variant: the accumulator is not cleared
center_kept(c) == c

\* line 361
center_after_flush(c) == <<>>

\* lines 351-361, given the locals of the flush
flushed(g, f) ==
    [g EXCEPT !.last = f, !.screen = f.right.s,
              !.center = center_after_flush(g.center)]

\* lines 350-361
maybe_flush(g, is_last, now) ==
    IF flushes(is_last)
    THEN flushed(g, flush(g.center, g.active_index, g.screen, now))
    ELSE g

\* line 362
return_x(g) == [g EXCEPT !.ret = <<g.screen.x>>]

\* g holds the globals, the screen, the returned value and the flush's locals
draw_tab(g, tab, index, is_last, now) ==
    return_x(
        maybe_flush(append_cell(set_active(start_timer(g), tab, index), tab),
                    is_last, now))

(***************************************************************************)
(* The state machine: the host draws frames, the timer fires in between.   *)
(***************************************************************************)
NoProbe == [done |-> FALSE, cell |-> time_cell, max_size |-> 0,
            text |-> None, before |-> BlankScreen(0, 0)]

Columns == 1..MaxColumns

Init ==
    /\ center = <<>>
    /\ active_index = 1
    /\ timer_id = <<>>
    /\ timers = 0
    /\ dirty = FALSE
    /\ screen = BlankScreen(1, 0)
    /\ phase = "idle"
    /\ n_tabs = 0
    /\ active_pos = 0
    /\ tabs = <<>>
    /\ called = FALSE
    /\ ret = <<>>
    /\ last = NoFlush
    /\ probe = NoProbe

\* The host's window is resized between two redraws.
Resize ==
    /\ phase = "idle"
    /\ \E columns \in Columns : screen' = BlankScreen(columns, 0)
    /\ UNCHANGED <<center, active_index, timer_id, timers, dirty, phase, n_tabs,
                   active_pos, tabs, called, ret, last, probe>>

\* The host starts a redraw of n tabs, the a-th of them active.
BeginFrame ==
    /\ phase = "idle"
    /\ \E n \in 1..MaxTabs : \E a \in 1..n :
        /\ n_tabs' = n
        /\ active_pos' = a
    /\ phase' = "drawing"
    /\ dirty' = FALSE
    /\ UNCHANGED <<center, active_index, timer_id, timers, screen, tabs, called,
                   ret, last, probe>>

\* what draw_tab reads and writes
Globals ==
    [center |-> center, active_index |-> active_index, timer_id |-> timer_id,
     timers |-> timers, screen |-> screen, ret |-> ret, last |-> NoFlush]

\* the TabBarData of the tab the host hands over next
HandedTab(t) == WithActive(t, Len(tabs) + 1 = active_pos)

\* The host hands the next tab of the frame to draw_tab.
DrawTab ==
    /\ phase = "drawing"
    /\ \E t \in TabMenu, now \in Clock :
        \E r \in {draw_tab(Globals, HandedTab(t), Len(tabs) + 1,
                            Len(tabs) + 1 = n_tabs, now)} :
           /\ center' = r.center
           /\ active_index' = r.active_index
           /\ timer_id' = r.timer_id
           /\ timers' = r.timers
           /\ screen' = r.screen
           /\ ret' = r.ret
           /\ last' = r.last
           /\ tabs' = Append(tabs, HandedTab(t))
    /\ phase' = IF Len(tabs) + 1 = n_tabs THEN "drawn" ELSE "drawing"
    /\ called' = TRUE
    /\ UNCHANGED <<dirty, n_tabs, active_pos, probe>>

\* The host has shown the bar; the surface is erased for the next redraw.
EndFrame ==
    /\ phase = "drawn"
    /\ phase' = "idle"
    /\ screen' = BlankScreen(screen.columns, 0)
    /\ n_tabs' = 0
    /\ active_pos' = 0
    /\ tabs' = <<>>
    /\ ret' = <<>>
    /\ last' = NoFlush
    /\ UNCHANGED <<center, active_index, timer_id, timers, dirty, called, probe>>

\* The registered timer fires.
RedrawTabBar ==
    /\ timers > 0
    /\ \E tm_present \in BOOLEAN : dirty' = redraw_tab_bar(dirty, tm_present)
    /\ UNCHANGED <<center, active_index, timer_id, timers, screen, phase, n_tabs,
                   active_pos, tabs, called, ret, last, probe>>

Next == Resize \/ BeginFrame \/ DrawTab \/ EndFrame \/ RedrawTabBar

Spec == Init /\ [][Next]_vars

(***************************************************************************)
(* A second machine: Cell.draw applied to one cell on a fresh surface.     *)
(***************************************************************************)
Budgets == (0 - 2)..MaxBudget

CellMenu ==
    {Cell(icon, fn, WithActive(t, FALSE), COLOR_1, separator, border) :
        icon \in {"", "7", folder_icon},
        fn \in {"get_wd", "get_time", "get_tab", "get_session"},
        t \in TabMenu,
        separator \in {"", default_separator},
        border \in {<<"", "">>, default_border, <<"((", "">>}}

\* A surface is handed out with its cursor at some column.
NewScreen ==
    /\ \E x \in 0..MaxStart : screen' = BlankScreen(screen.columns, x)
    /\ probe' = NoProbe
    /\ UNCHANGED <<center, active_index, timer_id, timers, dirty, phase, n_tabs,
                   active_pos, tabs, called, ret, last>>

\* cell.draw(screen, max_size); text is what the provider returned to it
CellDraw ==
    /\ ~probe.done
    /\ \E cell \in CellMenu, max_size \in Budgets, now \in Clock :
        /\ screen' = Cell_draw(cell, screen, max_size, now)
        /\ probe' = [done |-> TRUE, cell |-> cell, max_size |-> max_size,
                     text |-> text_fn(cell, max_size - text_length_overhead(cell), now),
                     before |-> screen]
    /\ UNCHANGED <<center, active_index, timer_id, timers, dirty, phase, n_tabs,
                   active_pos, tabs, called, ret, last>>

NextCell == NewScreen \/ CellDraw

SpecCell == Init /\ [][NextCell]_vars

(***************************************************************************)
(* What the claims are stated with.                                        *)
(***************************************************************************)
\* the columns taken by the entries of a drawing log from position i on
RECURSIVE Drawn(_, _)
Drawn(out, i) == IF i > Len(out) THEN 0 ELSE Len(out[i].text) + Drawn(out, i + 1)

\* s.split("/")
RECURSIVE Split(_)
Split(s) ==
    IF s = "" THEN <<"">>
    ELSE IF SubSeq(s, 1, 1) = "/" THEN <<"">> \o Split(SubSeq(s, 2, Len(s)))
    ELSE <<SubSeq(s, 1, 1) \o Head(Split(SubSeq(s, 2, Len(s))))>>
         \o Tail(Split(SubSeq(s, 2, Len(s))))

Markers(segments) == {i \in 1..Len(segments) : segments[i] = ".."}

ProbeKind == IF probe.text.hidden THEN "hidden"
             ELSE IF probe.text.text = "" THEN "icon-only" ELSE "labeled"

ProbeAdvance == screen.x - probe.before.x

(***************************************************************************)
(* C1: Cell.draw advances the cursor by exactly Cell.length(max_size) for  *)
(* the same max_size: 0 and nothing drawn when the provider hides the      *)
(* cell, icon + both borders when icon-only, label length + overhead when  *)
(* labeled.                                                                *)
(***************************************************************************)
C1Theorem ==
    probe.done =>
        /\ \A now \in Clock :
              ProbeAdvance = Cell_length(probe.cell, probe.max_size, now)
        /\ Drawn(screen.out, 1) = ProbeAdvance
        /\ ProbeKind = "hidden" => ProbeAdvance = 0 /\ screen = probe.before
        /\ ProbeKind = "icon-only" =>
              ProbeAdvance = Len(probe.cell.icon) + Len(probe.cell.border[1])
                             + Len(probe.cell.border[2])
        /\ ProbeKind = "labeled" =>
              ProbeAdvance = Len(probe.text.text) + Len(probe.cell.icon)
                             + Len(probe.cell.border[1]) + Len(probe.cell.border[2])
                             + Len(probe.cell.separator) + 1

C1Witness ==
    /\ probe.done
    /\ ProbeKind = "labeled"
    /\ probe.cell.border = default_border
    /\ probe.cell.separator = default_separator
    /\ probe.cell.icon = folder_icon
    /\ probe.before.x > 0
    /\ ProbeAdvance = Len(probe.text.text) + 6

ProbeDeepWd ==
    /\ probe.done
    /\ probe.cell.text_fn = "get_wd"
    /\ Len(wd_parts(probe.cell.tab)) > MAX_LENGTH_PATH
    /\ ~probe.text.hidden

ProbeSegments == Split(probe.text.text)

OneMarker ==
    /\ Cardinality(Markers(ProbeSegments)) = 1
    /\ \A i \in Markers(ProbeSegments) : Len(ProbeSegments) - i <= MAX_LENGTH_PATH

(***************************************************************************)
(* C6 as stated: for a path of more than MAX_LENGTH_PATH segments, a       *)
(* string returned by get_wd holds exactly one ".." marker and at most 3   *)
(* segments after it.                                                      *)
(***************************************************************************)
C6Original == ProbeDeepWd => OneMarker

(***************************************************************************)
(* C6 amended: such a string is either the final segment alone (the last   *)
(* resort of lines 160-162) or holds exactly one ".." marker, followed by  *)
(* at least one and at most 3 segments.                                    *)
(***************************************************************************)
C6Theorem ==
    ProbeDeepWd =>
        \/ probe.text.text = wd_parts(probe.cell.tab)[Len(wd_parts(probe.cell.tab))]
        \/ /\ OneMarker
           /\ \A i \in Markers(ProbeSegments) : Len(ProbeSegments) - i >= 1

C6Witness ==
    /\ ProbeDeepWd
    /\ OneMarker
    /\ \E i \in Markers(ProbeSegments) : Len(ProbeSegments) - i = MAX_LENGTH_PATH

(***************************************************************************)
(* The flush of the frame just drawn.                                      *)
(***************************************************************************)
AnyTime == CHOOSE now \in Clock : TRUE

FlushColumns == last.s_begin.columns

ActiveCell == last.center[last.active_index + 1]

IsPrefix(a, b) == Len(a) <= Len(b) /\ SubSeq(b, 1, Len(a)) = a

\* the entries a step of the flush added to the log of the step before it
Added(before, after) == SubSeq(after.out, Len(before.out) + 1, Len(after.out))

InColumns(entries, lo, hi) ==
    \A i \in 1..Len(entries) :
        lo <= entries[i].x /\ entries[i].x + Len(entries[i].text) <= hi

\* each entry starts where the one before it ended
Contiguous(entries) ==
    \A i \in 1..(Len(entries) - 1) :
        entries[i + 1].x = entries[i].x + Len(entries[i].text)

StrategyOrder == <<"EXPAND_ALL", "EXPAND_ACTIVE", "NO_EXPAND", "SHOW_ACTIVE">>

\* The total width of the k-th strategy, as the claim words it.
ClaimedWidth(k) ==
    CASE k = 1 ->
           Len(last.center) - 1
           + sum([i \in 1..Len(last.center) |->
                    Cell_length(last.center[i], FlushColumns, AnyTime)])
      [] k = 2 ->
           Len(last.center) - 1
           + Cell_length(ActiveCell, FlushColumns, AnyTime)
           + sum([i \in 1..Len(last.center) |->
                    IF i = last.active_index + 1 THEN 0
                    ELSE Cell_length(last.center[i], 0, AnyTime)])
      [] k = 3 ->
           Len(last.center) - 1
           + sum([i \in 1..Len(last.center) |->
                    Cell_length(last.center[i], 0, AnyTime)])
      [] k = 4 -> Cell_length(ActiveCell, FlushColumns, AnyTime)

Fitting == {k \in 1..4 : ClaimedWidth(k) < FlushColumns}

FirstFitting == CHOOSE k \in Fitting : \A j \in Fitting : k <= j

(***************************************************************************)
(* C2: center_strategy returns the first of EXPAND_ALL, EXPAND_ACTIVE,     *)
(* NO_EXPAND, SHOW_ACTIVE whose total width is strictly less than columns, *)
(* with that width, and SHOW_ACTIVE_NO_EXPAND with the active cell's       *)
(* zero-budget length exactly when none of the four fits.                  *)
(***************************************************************************)
C2Theorem ==
    last.done =>
        IF Fitting = {}
        THEN last.st = [strategy |-> "SHOW_ACTIVE_NO_EXPAND",
                        length |-> Cell_length(ActiveCell, 0, AnyTime)]
        ELSE last.st = [strategy |-> StrategyOrder[FirstFitting],
                        length |-> ClaimedWidth(FirstFitting)]

\* a width equal to columns does not fit
C2Witness ==
    /\ last.done
    /\ ClaimedWidth(1) = FlushColumns
    /\ last.st.strategy = "EXPAND_ACTIVE"

FlushCursors ==
    {last.s_begin.x, last.start, last.s_left.x, last.s_center.x, last.s_space.x,
     last.right.s_pad.x, last.right.s_session.x, last.right.s.x}

(***************************************************************************)
(* C4 as stated: during the flush nothing is drawn past the column budget: *)
(* the cursor never goes below 0 and never exceeds screen.columns, the     *)
(* fallback strategy included.                                             *)
(***************************************************************************)
C4Original ==
    last.done =>
        /\ \A x \in FlushCursors : 0 <= x /\ x <= FlushColumns
        /\ InColumns(screen.out, 0, FlushColumns)

RightWidth == last.right.s.x - last.right.s_begin.x

\* the columns the session cell took, without the space after it
SessionDrawn ==
    IF last.right.session_length # 0
    THEN last.right.s_session.x - last.right.s_pad.x - 1
    ELSE last.right.s_session.x - last.right.s_pad.x

(***************************************************************************)
(* C5: in draw_right, when max_size = columns - cursor.x >= 0, the padding, *)
(* the session cell (drawn with its measured length as its budget), its    *)
(* space and the clock cell take exactly max_size columns, the session     *)
(* cell takes exactly the width reserved for it, and the last draw_tab     *)
(* call returns screen.columns.                                            *)
(***************************************************************************)
C5Theorem ==
    (last.done /\ last.right.max_size >= 0) =>
        /\ RightWidth = last.right.max_size
        /\ Drawn(Added(last.right.s_begin, last.right.s), 1) = last.right.max_size
        /\ SessionDrawn = last.right.session_length
        /\ screen.x = FlushColumns
        /\ ret = <<FlushColumns>>

\* padding, a truncated session name and the clock
C5Witness ==
    /\ last.done
    /\ last.right.s_pad.x > last.right.s_begin.x
    /\ last.right.session_length = 9
    /\ ActiveCell.tab.session_name = "development"
    /\ last.right.time_length = 11

(***************************************************************************)
(* C7: add_timer is called exactly once, in the first draw_tab call, and   *)
(* never again; the timer callback only marks the tab bar dirty and leaves *)
(* center, active_index and timer_id as they are.                          *)
(***************************************************************************)
C7Theorem ==
    /\ [](/\ timers = (IF called THEN 1 ELSE 0)
          /\ (timer_id = <<>>) = ~called)
    /\ [][/\ timers' # timers => ~called /\ called'
          /\ (~dirty /\ dirty') => UNCHANGED <<center, active_index, timer_id>>]_vars

\* the timer has fired in the middle of a frame
C7Witness ==
    /\ called
    /\ timers = 1
    /\ dirty
    /\ phase = "drawing"
    /\ Len(center) = 1

(***************************************************************************)
(* C8: a draw_tab call with is_last false draws nothing: it leaves the     *)
(* surface, the cursor column and the cursor style as they are, returns    *)
(* the cursor column and appends one cell; all drawing happens in the      *)
(* is_last call, in the order left, center, one space, right.              *)
(***************************************************************************)
C8Theorem ==
    /\ [][(phase = "drawing" /\ phase' = "drawing" /\ tabs' # tabs) =>
            /\ screen' = screen
            /\ ret' = <<screen.x>>
            /\ Len(center') = Len(center) + 1
            /\ SubSeq(center', 1, Len(center)) = center]_vars
    /\ [](/\ phase = "drawing" => screen.out = <<>>
          /\ last.done =>
              /\ last.s_begin.out = <<>>
              /\ IsPrefix(last.s_begin.out, last.s_left.out)
              /\ IsPrefix(last.s_left.out, last.s_center.out)
              /\ Len(last.s_center.out) > Len(last.s_left.out)
              /\ Added(last.s_center, last.s_space) =
                    <<[x |-> last.s_center.x, text |-> " ", fg |-> last.s_center.fg,
                       bg |-> last.s_center.bg, bold |-> last.s_center.bold]>>
              /\ IsPrefix(last.s_space.out, last.right.s.out)
              /\ screen = last.right.s)

\* a frame of two tabs whose flush drew the left cell and the right cells
C8Witness ==
    /\ last.done
    /\ Len(tabs) = 2
    /\ Len(last.s_left.out) > 0
    /\ Len(last.right.s.out) > Len(last.s_space.out)

(***************************************************************************)
(* C9: draw_center advances the cursor by exactly the width                *)
(* center_strategy returned, so the center block takes the columns         *)
(* [start, start + width) with start = (columns - width) // 2, and its     *)
(* left and right margins differ by at most 1.                             *)
(***************************************************************************)
C9Theorem ==
    last.done =>
        /\ last.s_center.x - last.start = last.st.length
        /\ Drawn(Added(last.s_left, last.s_center), 1) = last.st.length
        /\ Contiguous(Added(last.s_left, last.s_center))
        /\ InColumns(Added(last.s_left, last.s_center), last.start,
                     last.start + last.st.length)
        /\ 2 * last.start <= FlushColumns - last.st.length
        /\ FlushColumns - last.st.length <= 2 * last.start + 1
        /\ (FlushColumns - last.start - last.st.length) - last.start \in {0, 1}

C9Witness ==
    /\ last.done
    /\ last.st.strategy = "EXPAND_ACTIVE"
    /\ Len(last.center) = 2
    /\ (FlushColumns - last.start - last.st.length) - last.start = 1

\* the left cell's borders, icon, separator and the space before its label
LeftOverhead == Len(default_border[1] \o folder_icon \o default_separator \o " "
                    \o default_border[2])

(***************************************************************************)
(* C10: on a flush that starts with the cursor at column 0, the left cell  *)
(* is either hidden or takes at most center_start_position - 1 columns:    *)
(* get_wd returns no string longer than the inner width it is given and    *)
(* never icon-only, so the left cell ends before the centered block.       *)
(***************************************************************************)
C10Theorem ==
    (last.done /\ last.s_begin.x = 0) =>
        \/ last.wd.hidden /\ last.s_left = last.s_begin
        \/ /\ ~last.wd.hidden
           /\ last.wd.text # ""
           /\ Len(last.wd.text) <= last.start - 1 - LeftOverhead
           /\ last.s_left.x <= last.start - 1
           /\ Drawn(last.s_left.out, 1) = last.s_left.x
           /\ InColumns(last.s_left.out, 0, last.start - 1)

\* the left cell fills its budget to the last column
C10Witness ==
    /\ last.done
    /\ ~last.wd.hidden
    /\ last.s_left.x = last.start - 1

====
